---- MODULE Spec2Model ----
(***************************************************************************)
(* The "genre" table declared by models.py, as SQLAlchemy's declarative    *)
(* mapping presents it to a session: three columns                         *)
(*     id         = Column(Integer(), primary_key=True)                    *)
(*     name       = Column(Text(), nullable=False, unique=True)            *)
(*     created_at = Column(DateTime, default = datetime.now())             *)
(* The only code the module runs by itself is the class body, which        *)
(* evaluates datetime.now() once, when the class is loaded, and hands the  *)
(* resulting value to Column as the default.  The operations on the table  *)
(* (insert, update) are those of the session and the engine that          *)
(* consume the declaration; each is one flushed and committed unit, and a  *)
(* constraint violation rolls that unit back.                              *)
(*                                                                         *)
(* A column value is NULL (the empty tuple) or <<v>>, so that NULL is a    *)
(* value distinct from every integer, every text (the empty text "" too)   *)
(* and every timestamp.  The clock is the wall clock datetime.now() reads, *)
(* taken to be monotonic.                                                  *)
(***************************************************************************)
EXTENDS Integers, FiniteSets, Sequences, TLC

\* ---------------------------------------------------------------- bounds
MaxId == 2
MaxClock == 1

\* ---------------------------------------------------------------- values
NULL == <<>>

Some(v) == <<v>>

Texts == {"", "Jazz"}

Ids == 1..MaxId

Times == 0..MaxClock

IdValues == {NULL} \cup {Some(i) : i \in Ids}

NameValues == {NULL} \cup {Some(t) : t \in Texts}

TimeValues == {NULL} \cup {Some(t) : t \in Times}

\* The timestamps a caller supplies for created_at.
Stamps == {0, 1}

StampValues == {NULL} \cup {Some(t) : t \in Stamps}

VARIABLES clock, load_time, rows, inserted, op, result

vars == <<clock, load_time, rows, inserted, op, result>>

\* ------------------------------------------------------- the declaration
\* Column(Integer(), primary_key=True): the key is required and identifies
\* one row.
id_nullable == FALSE

id_unique == TRUE

\* Column(Text(), nullable=False, unique=True)
name_nullable_dropped == TRUE

name_nullable == FALSE

name_unique_dropped == FALSE

name_unique == TRUE

\* Column(DateTime, default = ...): no nullable=False, no unique=True.
created_at_nullable == TRUE

\* The default handed to Column is the value datetime.now() returned when
\* the class body ran, a plain datetime and not a callable: every use of
\* the default, at whatever time, yields that value.
created_at_default_per_insert(loaded, now) == now

created_at_default(loaded, now) == loaded

\* An Integer primary key left unset is generated by the engine: the key
\* following the largest one in the table (1 in an empty table).
MaxKey(table) ==
    IF table = {} THEN 0
    ELSE CHOOSE k \in {r.id[1] : r \in table} :
             \A r \in table : r.id[1] <= k

NextId_by_count(table) == Some(Cardinality(table) + 1)

NextId(table) == Some(MaxKey(table) + 1)

Check_empty_as_null(row, others) ==
    IF row.name \in {NULL, Some("")} \/ row.id = NULL
    THEN "not_null"
    ELSE IF \E r \in others : r.id = row.id
    THEN "primary_key"
    ELSE IF \E r \in others : r.name = row.name
    THEN "unique"
    ELSE "ok"

Check_key_first(row, others) ==
    IF \E r \in others : r.id = row.id
    THEN "primary_key"
    ELSE IF row.name = NULL \/ row.id = NULL
    THEN "not_null"
    ELSE IF \E r \in others : r.name = row.name
    THEN "unique"
    ELSE "ok"

\* The constraints the declaration puts on a candidate row, given the other
\* rows of the table, in the order the engine checks them: NOT NULL first,
\* then the primary key, then the unique index on name.
Check(row, others) ==
    IF (~name_nullable /\ row.name = NULL) \/ (~id_nullable /\ row.id = NULL)
        \/ (~created_at_nullable /\ row.created_at = NULL)
    THEN "not_null"
    ELSE IF id_unique /\ \E r \in others : r.id = row.id
    THEN "primary_key"
    ELSE IF name_unique /\ \E r \in others : r.name = row.name
    THEN "unique"
    ELSE "ok"

InsertRow_default_only(i, n, c, table, loaded, now) ==
    [id |-> IF i = NULL THEN NextId(table) ELSE i,
     name |-> n,
     created_at |-> created_at_default(loaded, now)]

\* The row the session sends for Genre(id=i, name=n, created_at=c): an
\* attribute left unset or set to None is left out of the INSERT when the
\* column has a default or is the generated key, and is sent as NULL
\* otherwise.
InsertRow(i, n, c, table, loaded, now) ==
    [id |-> IF i = NULL THEN NextId(table) ELSE i,
     name |-> n,
     created_at |-> IF c = NULL THEN created_at_default(loaded, now) ELSE c]

Flush_replace(table, row, res) ==
    IF res = "ok" THEN table \cup {row}
    ELSE IF res = "primary_key"
    THEN {r \in table : r.id # row.id} \cup {row}
    ELSE table

Flush_unchecked(table, row, res) ==
    IF res \in {"ok", "unique"} THEN table \cup {row} ELSE table

\* The table after the commit of an insert: the row is added when every
\* constraint holds, and the unit is rolled back otherwise.
Flush(table, row, res) ==
    IF res = "ok" THEN table \cup {row} ELSE table

\* ------------------------------------------------------------- the state
Operation(kind, i, n, c) ==
    [kind |-> kind, id |-> i, name |-> n, created_at |-> c]

Init ==
    /\ clock = 0
    /\ load_time = Some(0)
    /\ rows = {}
    /\ inserted = {}
    /\ op = Operation("load", NULL, NULL, NULL)
    /\ result = "ok"

\* Time passes.
Tick ==
    /\ clock < MaxClock
    /\ clock' = clock + 1
    /\ op' = Operation("tick", NULL, NULL, NULL)
    /\ result' = "ok"
    /\ UNCHANGED <<load_time, rows, inserted>>

\* A new process imports the module: the class body runs and datetime.now()
\* is evaluated.  The table is in the database and outlives the process.
Load ==
    /\ load_time' = Some(clock)
    /\ inserted' = {}
    /\ op' = Operation("load", NULL, NULL, NULL)
    /\ result' = "ok"
    /\ UNCHANGED <<clock, rows>>

\* session.add(Genre(id=i, name=n, created_at=c)); session.commit()
\* inserted records, for the running process, what each accepted insert
\* stored and when.
Insert(i, n, c) ==
    LET row == InsertRow(i, n, c, rows, load_time, Some(clock))
        res == Check(row, rows)
    IN  /\ row.id \in IdValues
        /\ op' = Operation("insert", i, n, c)
        /\ result' = res
        /\ rows' = Flush(rows, row, res)
        /\ inserted' = IF res = "ok"
                       THEN inserted \cup {[created_at |-> row.created_at,
                                            supplied |-> c # NULL,
                                            at |-> clock]}
                       ELSE inserted
        /\ UNCHANGED <<clock, load_time>>

\* A loaded Genre has one attribute assigned and the session commits:
\* UPDATE genre SET col = v WHERE id = r.id.  The column default is an
\* insert default only and plays no part.
Update(r, col, v) ==
    LET row == [r EXCEPT ![col] = v]
        res == Check(row, rows \ {r})
    IN  /\ r \in rows
        /\ row # r
        /\ op' = Operation("update", row.id, row.name, row.created_at)
        /\ result' = res
        /\ rows' = IF res = "ok" THEN (rows \ {r}) \cup {row} ELSE rows
        /\ UNCHANGED <<clock, load_time, inserted>>

Next ==
    \/ Tick
    \/ Load
    \/ \E i \in IdValues, n \in NameValues, c \in StampValues : Insert(i, n, c)
    \/ \E r \in rows, v \in IdValues : Update(r, "id", v)
    \/ \E r \in rows, v \in NameValues : Update(r, "name", v)
    \/ \E r \in rows, v \in StampValues : Update(r, "created_at", v)

Spec == Init /\ [][Next]_vars

\* ------------------------------------------------------------ properties
\* What the step just taken was.
InsertStep == op'.kind = "insert"

Accepted == result' = "ok"

\* The rows the step added.
Added == rows' \ rows

NameInUse(n) == \E r \in rows : r.name = n

\* The insert supplies a key some row already has.
KeyInUse(i) == i # NULL /\ \E r \in rows : r.id = i

\* C1: in every reachable state of the table, after any sequence of accepted
\* or rejected inserts and updates, every row has a non-null name and no two
\* distinct rows have the same name.
C1_NameNotNullUnique ==
    /\ \A r \in rows : r.name # NULL
    /\ \A r1, r2 \in rows : r1 # r2 => r1.name # r2.name

\* Two rows are in the table and an update that would have given one of them
\* the other's name has just been rejected.
C1_Witness ==
    /\ Cardinality(rows) = 2
    /\ op.kind = "update"
    /\ result = "unique"

\* C2 as stated: an insert of a name some row already has is rejected for
\* uniqueness, and an insert of a non-null name no row has is accepted.
C2_Original ==
    [][InsertStep /\ op'.name # NULL
         => IF NameInUse(op'.name)
            THEN result' \in {"unique", "primary_key"}
            ELSE Accepted]_vars

\* C2 as amended: an insert of a name some row already has is rejected for
\* uniqueness (on the name, or on the key when it also supplies a key in
\* use); an insert of a non-null name no row has is accepted when it
\* supplies no key or a key not in use, and is rejected for the primary key
\* when it supplies a key in use.
C2_DuplicateNameRejected ==
    [][InsertStep /\ op'.name # NULL
         => IF NameInUse(op'.name)
            THEN /\ result' \in {"unique", "primary_key"}
                 /\ ~KeyInUse(op'.id) => result' = "unique"
            ELSE IF KeyInUse(op'.id) THEN result' = "primary_key"
            ELSE Accepted /\ \E r \in Added : r.name = op'.name]_vars

\* The second insert of a name, with a generated key, has just been rejected
\* while the row of the first insert is in the table.
C2_Witness ==
    /\ op.kind = "insert"
    /\ op.id = NULL
    /\ op.name = Some("Jazz")
    /\ result = "unique"
    /\ \E r \in rows : r.name = Some("Jazz")

\* C3: an insert with a null name fails with a not-null violation, in every
\* table state and whatever the other column values are.
C3_NullNameRejected ==
    [][InsertStep /\ op'.name = NULL => result' = "not_null"]_vars

\* A null-name insert that also supplied a key in use and a created_at has
\* just been rejected for the null, into a table that holds rows.
C3_Witness ==
    /\ op.kind = "insert"
    /\ op.name = NULL
    /\ op.created_at # NULL
    /\ \E r \in rows : r.id = op.id
    /\ result = "not_null"

DistinctIds ==
    /\ \A r \in rows : r.id # NULL
    /\ \A r1, r2 \in rows : r1 # r2 => r1.id # r2.id

C5_Original ==
    \A e1, e2 \in inserted : e1.created_at = e2.created_at

\* C5 as amended: all rows inserted by one process without a created_at of
\* their own have the same created_at, however far the clock advances
\* between the inserts.
C5_DefaultSharedInProcess ==
    \A e1, e2 \in inserted :
        ~e1.supplied /\ ~e2.supplied => e1.created_at = e2.created_at

\* One process has inserted two rows without a created_at, at different
\* times.
C5_Witness ==
    \E e1, e2 \in inserted :
        ~e1.supplied /\ ~e2.supplied /\ e1.at < e2.at

\* C6 as stated: an insert whose name is the empty text is rejected as an
\* insert whose name is null is.
C6_Original ==
    [][InsertStep /\ op'.name = Some("") => result' = "not_null"]_vars

\* C6 as amended: the name must be present, and the empty text is present:
\* an insert whose name is the empty text is never rejected for a null, and
\* is accepted exactly when no row is named "" and its key is not in use.
C6_EmptyNameIsAName ==
    [][InsertStep /\ op'.name = Some("")
         => /\ result' # "not_null"
            /\ Accepted <=> ~NameInUse(Some("")) /\ ~KeyInUse(op'.id)]_vars

\* A row whose name is the empty text is in the table, just inserted.
C6_Witness ==
    /\ op.kind = "insert"
    /\ op.name = Some("")
    /\ result = "ok"
    /\ \E r \in rows : r.name = Some("")

C8_DefaultIsLoadTime ==
    [][InsertStep /\ op'.created_at = NULL /\ Accepted
         => /\ \E r \in Added : r.created_at = load_time
            /\ load_time[1] <= clock]_vars

\* A row has just been inserted without a created_at, after the clock moved
\* on from the load of the class, and carries the time of the load.
C8_Witness ==
    /\ op.kind = "insert"
    /\ op.created_at = NULL
    /\ result = "ok"
    /\ load_time[1] < clock
    /\ \E e \in inserted : ~e.supplied /\ e.at = clock
                           /\ e.created_at = load_time

\* C9: an insert rejected for a null name or a duplicate name (or a key in
\* use) leaves the table unchanged.
C9_RejectedInsertNoChange ==
    [][InsertStep /\ ~Accepted => rows' = rows]_vars

\* An insert has just been rejected for a duplicate name, and the table
\* holds rows.
C9_Witness ==
    /\ op.kind = "insert"
    /\ result = "unique"
    /\ op.created_at # NULL
    /\ rows # {}

\* C10: an insert that supplies a created_at stores the supplied value and
\* not the load-time default.
C10_SuppliedCreatedAtStored ==
    [][InsertStep /\ op'.created_at # NULL /\ Accepted
         => \E r \in Added : r.created_at = op'.created_at]_vars

\* One process has inserted two rows that carry different created_at
\* values, one of them supplied by the caller.
C10_Witness ==
    \E e1, e2 \in inserted :
        e1.supplied /\ ~e2.supplied /\ e1.created_at # e2.created_at
====
